---- MODULE Spec2Model ----
(***************************************************************************)
(* Model of the FAQ chatbot's query-resolution pipeline (src/chatbot.py):  *)
(* load_faqs, detect_language, translate_text, best_match, get_answer and  *)
(* the part of the Streamlit submit handler that shows the candidates.     *)
(*                                                                         *)
(* Text is a sequence of characters; a character is a small integer,       *)
(* 0 being the space and 1, 2, 3 the letters a, b, c.  Python's None is    *)
(* the one-element sequence <<-1>>, which is no text.                      *)
(***************************************************************************)
EXTENDS Integers, Sequences, FiniteSets, TLC

VARIABLES
    \* load_faqs
    doc,        \* [exists, items]: whether the path exists, and the parsed JSON array
    li,         \* position of the for loop over the document (1-based)
    qa,         \* the list load_faqs builds
    lpc,        \* position in load_faqs
    \* translate_text called on its own
    tArgs,      \* [text, src, tgt] of the call
    tRes,       \* what the call did: [ret, calls, warned, raised]
    tpc,
    \* best_match called on its own
    mArgs,      \* [query, list, k] of the call
    mRes,       \* the list best_match returned
    mpc,
    \* get_answer, one call at a time for each caller (a Streamlit session)
    faqs,       \* the FAQ store every caller shares
    pc,         \* caller -> position in the submit handler / get_answer
    call,       \* caller -> [user_input, conf_thresh]: the arguments of the call
    env,        \* caller -> what the detector and the translator did for this call
    loc,        \* caller -> get_answer's locals: src_lang, query_en, matches
    result,     \* caller -> the dict get_answer returned (or NoResult)
    trace,      \* caller -> the steps the call went through, in order
    shown       \* caller -> the candidates the UI printed

loadVars == <<doc, li, qa, lpc>>
trVars == <<tArgs, tRes, tpc>>
mVars == <<mArgs, mRes, mpc>>
resVars == <<faqs, pc, call, env, loc, result, trace, shown>>
vars == <<doc, li, qa, lpc, tArgs, tRes, tpc, mArgs, mRes, mpc,
          faqs, pc, call, env, loc, result, trace, shown>>

-----------------------------------------------------------------------------
(* Python values *)

None == <<-1>>

Truthy(v) == v # None /\ v # <<>>

\* Python's  a or b
Or(a, b) == IF Truthy(a) THEN a ELSE b

\* the characters: 0 is the space
Space == 0

RECURSIVE LStrip(_)
LStrip(s) == IF s # <<>> /\ Head(s) = Space THEN LStrip(Tail(s)) ELSE s

RECURSIVE RStrip(_)
RStrip(s) ==
    IF s # <<>> /\ s[Len(s)] = Space THEN RStrip(SubSeq(s, 1, Len(s) - 1)) ELSE s

\* str.strip()
Strip(s) == RStrip(LStrip(s))

-----------------------------------------------------------------------------
(* load_faqs *)

\* dict.get(key): the value, or None when the key is absent
Get(item, key) == IF key \in DOMAIN item THEN item[key] ELSE None

\* line 25
ItemQuestion(item) ==
    Or(Or(Or(Get(item, "question"), Get(item, "q")), Get(item, "title")), <<>>)

\* line 26
ItemAnswer(item) == Or(Or(Get(item, "answer"), Get(item, "ans")), <<>>)

\* a faulty variant of LoopBody: alternate field names are tried first
LoopBody_qFirst(item, acc) ==
    LET q == Or(Or(Or(Get(item, "q"), Get(item, "question")), Get(item, "title")), <<>>)
    IN  IF Truthy(q)
        THEN Append(acc, [question |-> Strip(q), answer |-> Strip(ItemAnswer(item))])
        ELSE acc

\* lines 25-28: one iteration of the for loop
LoopBody(item, acc) ==
    IF Truthy(ItemQuestion(item))
    THEN Append(acc, [question |-> Strip(ItemQuestion(item)),
                      answer |-> Strip(ItemAnswer(item))])
    ELSE acc

\* lines 18-23
LoadOpen ==
    /\ lpc = "open"
    /\ IF ~doc.exists
       THEN lpc' = "FileNotFoundError" /\ UNCHANGED <<qa, li>>
       ELSE lpc' = "loop" /\ qa' = <<>> /\ li' = 1
    /\ UNCHANGED <<doc>>
    /\ UNCHANGED <<trVars, mVars, resVars>>

\* lines 24-28
LoadItem ==
    /\ lpc = "loop"
    /\ li <= Len(doc.items)
    /\ qa' = LoopBody(doc.items[li], qa)
    /\ li' = li + 1
    /\ UNCHANGED <<doc, lpc>>
    /\ UNCHANGED <<trVars, mVars, resVars>>

\* line 29
LoadReturn ==
    /\ lpc = "loop"
    /\ li > Len(doc.items)
    /\ lpc' = "done"
    /\ UNCHANGED <<doc, li, qa>>
    /\ UNCHANGED <<trVars, mVars, resVars>>

-----------------------------------------------------------------------------
(* detect_language and translate_text *)

LANGUAGE_FOR_MATCHING == "en"

\* lines 31-36.  det is what langdetect's detect did: a language code, or
\* "LangDetectException"
detect_language(text, det) ==
    IF det = "LangDetectException"
    THEN [ret |-> "en", raised |-> FALSE]
    ELSE [ret |-> det, raised |-> FALSE]

\* a faulty variant of translate_text: the backend's failure is not caught
translate_text_noCatch(text, src, tgt, backend) ==
    IF ~Truthy(text) THEN [ret |-> <<>>, calls |-> 0, warned |-> FALSE, raised |-> FALSE]
    ELSE IF src = tgt THEN [ret |-> text, calls |-> 0, warned |-> FALSE, raised |-> FALSE]
    ELSE IF backend.ok
         THEN [ret |-> backend.text, calls |-> 1, warned |-> FALSE, raised |-> FALSE]
         ELSE [ret |-> None, calls |-> 1, warned |-> FALSE, raised |-> TRUE]

\* a faulty variant of translate_text: a failed backend call is tried once more
translate_text_retry(text, src, tgt, backend) ==
    IF ~Truthy(text) THEN [ret |-> <<>>, calls |-> 0, warned |-> FALSE, raised |-> FALSE]
    ELSE IF src = tgt THEN [ret |-> text, calls |-> 0, warned |-> FALSE, raised |-> FALSE]
    ELSE IF backend.ok
         THEN [ret |-> backend.text, calls |-> 1, warned |-> FALSE, raised |-> FALSE]
         ELSE [ret |-> text, calls |-> 2, warned |-> TRUE, raised |-> FALSE]

\* a faulty variant of translate_text: no short cut when source and target are the same
translate_text_noShortCut(text, src, tgt, backend) ==
    IF ~Truthy(text) THEN [ret |-> <<>>, calls |-> 0, warned |-> FALSE, raised |-> FALSE]
    ELSE IF backend.ok
         THEN [ret |-> backend.text, calls |-> 1, warned |-> FALSE, raised |-> FALSE]
         ELSE [ret |-> text, calls |-> 1, warned |-> TRUE, raised |-> FALSE]

\* lines 38-50.  backend is what GoogleTranslator(...).translate(text) does if
\* it is called: [ok |-> TRUE, text |-> the translation] or [ok |-> FALSE, ...]
\* when it raises.  calls counts the backend calls made.
translate_text(text, src, tgt, backend) ==
    IF ~Truthy(text) THEN [ret |-> <<>>, calls |-> 0, warned |-> FALSE, raised |-> FALSE]
    ELSE IF src = tgt THEN [ret |-> text, calls |-> 0, warned |-> FALSE, raised |-> FALSE]
    ELSE IF backend.ok
         THEN [ret |-> backend.text, calls |-> 1, warned |-> FALSE, raised |-> FALSE]
         ELSE [ret |-> text, calls |-> 1, warned |-> TRUE, raised |-> FALSE]

-----------------------------------------------------------------------------
(* rapidfuzz: fuzz.token_set_ratio and process.extract, as best_match calls them *)

\* the first token of s, s having no leading space
RECURSIVE FirstToken(_)
FirstToken(s) ==
    IF s = <<>> \/ Head(s) = Space THEN <<>> ELSE <<Head(s)>> \o FirstToken(Tail(s))

\* str.split(): the set of the tokens between runs of spaces
RECURSIVE Tokens(_)
Tokens(s) ==
    LET t == LStrip(s)
    IN  IF t = <<>> THEN {}
        ELSE {FirstToken(t)} \cup Tokens(SubSeq(t, Len(FirstToken(t)) + 1, Len(t)))

\* a < b as Python compares strings
RECURSIVE StrLess(_, _)
StrLess(a, b) ==
    IF b = <<>> THEN FALSE
    ELSE IF a = <<>> THEN TRUE
    ELSE IF Head(a) # Head(b) THEN Head(a) < Head(b)
    ELSE StrLess(Tail(a), Tail(b))

\* " ".join(sorted(S))
RECURSIVE JoinSorted(_)
JoinSorted(S) ==
    IF S = {} THEN <<>>
    ELSE LET m == CHOOSE x \in S : \A y \in S \ {x} : StrLess(x, y)
         IN  IF S = {m} THEN m ELSE m \o <<Space>> \o JoinSorted(S \ {m})

\* length of the longest common subsequence
RECURSIVE LCS(_, _)
LCS(a, b) ==
    IF a = <<>> \/ b = <<>> THEN 0
    ELSE IF Head(a) = Head(b) THEN 1 + LCS(Tail(a), Tail(b))
    ELSE LET x == LCS(Tail(a), b)
             y == LCS(a, Tail(b))
         IN  IF x >= y THEN x ELSE y

\* the insertions and deletions that turn a into b
IndelDistance(a, b) == Len(a) + Len(b) - 2 * LCS(a, b)

\* 100 - 100 * dist / lensum, in thousandths of a percent, rounded down
NormDistance(dist, lensum) ==
    IF lensum = 0 THEN 100000 ELSE (100000 * (lensum - dist)) \div lensum

Max2(x, y) == IF x >= y THEN x ELSE y

\* fuzz.token_set_ratio(s1, s2), in thousandths of a percent
token_set_ratio(s1, s2) ==
    LET tokens_a == Tokens(s1)
        tokens_b == Tokens(s2)
        intersect == tokens_a \cap tokens_b
        diff_ab == tokens_a \ tokens_b
        diff_ba == tokens_b \ tokens_a
        diff_ab_joined == JoinSorted(diff_ab)
        diff_ba_joined == JoinSorted(diff_ba)
        ab_len == Len(diff_ab_joined)
        ba_len == Len(diff_ba_joined)
        sect_len == Len(JoinSorted(intersect))
        sep == IF sect_len # 0 THEN 1 ELSE 0
        sect_ab_len == sect_len + sep + ab_len
        sect_ba_len == sect_len + sep + ba_len
        res == NormDistance(IndelDistance(diff_ab_joined, diff_ba_joined),
                            sect_ab_len + sect_ba_len)
        sect_ab_ratio == NormDistance(sep + ab_len, sect_len + sect_ab_len)
        sect_ba_ratio == NormDistance(sep + ba_len, sect_len + sect_ba_len)
    IN  IF tokens_a = {} \/ tokens_b = {} THEN 0
        ELSE IF intersect # {} /\ (diff_ab = {} \/ diff_ba = {}) THEN 100000
        ELSE IF sect_len = 0 THEN res
        ELSE Max2(res, Max2(sect_ab_ratio, sect_ba_ratio))

\* a scored choice put in front of the later choices, which are ordered best
\* first: it goes before those that score no better, so that of two equal
\* scores the earlier choice comes first
RECURSIVE InsertScored(_, _)
InsertScored(t, sorted) ==
    IF sorted = <<>> THEN <<t>>
    ELSE IF Head(sorted).score <= t.score THEN <<t>> \o sorted
    ELSE <<Head(sorted)>> \o InsertScored(t, Tail(sorted))

\* the (choice, score, index) triples of the choices from index i on, best first
RECURSIVE ScoredFrom(_, _, _)
ScoredFrom(query, choices, i) ==
    IF i > Len(choices) THEN <<>>
    ELSE InsertScored([match |-> choices[i],
                       score |-> token_set_ratio(query, choices[i]),
                       index |-> i],
                      ScoredFrom(query, choices, i + 1))

\* process.extract(query, choices, scorer=fuzz.token_set_ratio, limit=limit):
\* the limit best triples, best first, equal scores in the order of the choices
process_extract(query, choices, limit) ==
    LET all == ScoredFrom(query, choices, 1)
    IN  SubSeq(all, 1, IF limit < Len(all) THEN limit ELSE Len(all))

-----------------------------------------------------------------------------
(* best_match and get_answer *)

TOP_K == 5

\* a faulty variant of best_match: the first top_k entries, in the order of the store
best_match_unranked(query_en, qa_list, top_k) ==
    [n \in 1..(IF top_k < Len(qa_list) THEN top_k ELSE Len(qa_list)) |->
        [question |-> qa_list[n].question,
         answer |-> qa_list[n].answer,
         score |-> token_set_ratio(query_en, qa_list[n].question),
         index |-> n - 1]]

\* lines 52-69.  A candidate's index is Python's, counted from 0.
best_match(query_en, qa_list, top_k) ==
    LET questions == [i \in DOMAIN qa_list |-> qa_list[i].question]
        results == process_extract(query_en, questions, top_k)
    IN  [n \in DOMAIN results |->
            [question |-> questions[results[n].index],
             answer |-> qa_list[results[n].index].answer,
             score |-> results[n].score,
             index |-> results[n].index - 1]]

\* conf_thresh is a percentage, a score is in thousandths of a percent
BelowThreshold(score, conf_thresh) == score < conf_thresh * 1000

\* what the detector and the translator do during one call of get_answer
NoCall == [ok |-> FALSE, text |-> <<Space>>]
NoEnv == [det |-> "-", tin |-> NoCall, tout |-> NoCall]

\* lines 71-88, as one function of the arguments and of what the detector
\* (e.det) and the translator (e.tin, e.tout) answer
get_answer(user_input, qa_list, conf_thresh, e) ==
    LET src_lang == detect_language(user_input, e.det).ret
        query_en == translate_text(user_input, src_lang, LANGUAGE_FOR_MATCHING, e.tin).ret
        matches == best_match(query_en, qa_list, TOP_K)
        best == matches[1]
    IN  IF matches = <<>>
        THEN [answer |-> None, score |-> 0, matches |-> <<>>, src_lang |-> src_lang]
        ELSE IF BelowThreshold(best.score, conf_thresh)
        THEN [answer |-> None, score |-> best.score, matches |-> matches,
              src_lang |-> src_lang, query_en |-> query_en]
        ELSE [answer |-> translate_text(best.answer, LANGUAGE_FOR_MATCHING,
                                        src_lang, e.tout).ret,
              score |-> best.score, matches |-> matches,
              src_lang |-> src_lang, query_en |-> query_en]

-----------------------------------------------------------------------------
(* the inputs *)

Callers == {"s1", "s2"}

Langs == {"en", "hi"}

\* what langdetect's detect does on a text: no features in an empty text
DetectOutcomes(text) ==
    IF text = <<>> THEN {"LangDetectException"} ELSE Langs \cup {"LangDetectException"}

\* what the translation backend does when it is called
Backends ==
    {[ok |-> FALSE, text |-> <<>>]} \cup {[ok |-> TRUE, text |-> t] : t \in {<<3, 0, 1>>}}

\* the FAQ entries a store is made of
FaqList ==
    << [question |-> <<1, 0, 2>>, answer |-> <<1>>],
       [question |-> <<1, 0, 3>>, answer |-> <<>>],
       [question |-> <<1, 2>>,    answer |-> <<2>>],
       [question |-> <<3>>,       answer |-> <<3, 0, 3>>],
       [question |-> <<2, 0, 3>>, answer |-> <<2, 2>>],
       [question |-> <<1>>,       answer |-> <<1, 1>>],
       [question |-> <<2>>,       answer |-> <<2, 0, 1>>],
       [question |-> <<3, 0, 1>>, answer |-> <<3>>] >>

MaxFaqs == 6

\* the stores: empty, two entries, and more entries than TOP_K
Stores == {SubSeq(FaqList, 1, n) : n \in {0, 2, MaxFaqs}}

\* what the user types in the text area
RawInputs == {<<Space>>, <<2, 0, 1, 0>>, <<1, 3>>, <<3, 3>>}

\* the confidence slider (line 145) goes from 0 to 100
Thresholds == {0, 60, 100}

\* the top-k slider (line 144)
TopKMin == 1
TopKMax == 10

\* the positions of the slider that are tried: below, just above and far above TOP_K
TopKs == {TopKMin, TOP_K + 1, TopKMax}

-----------------------------------------------------------------------------
(* get_answer step by step, for each caller *)

NoLoc == [src_lang |-> "-", query_en |-> None, matches |-> <<>>]
NoCallArgs == [user_input |-> None, conf_thresh |-> 0]
NoResult == [answer |-> None, score |-> 0, matches |-> <<>>, src_lang |-> "-"]
NoShown == [top_k |-> 0, branch |-> "-", cands |-> <<>>]

Step(name, r) == [step |-> name, calls |-> r.calls, warned |-> r.warned]

\* lines 186-191: the form is submitted; a blank text is refused with a warning
Submit(c) ==
    /\ pc[c] = "idle"
    /\ \E raw \in RawInputs, t \in Thresholds :
          IF ~Truthy(Strip(raw))
          THEN UNCHANGED <<pc, call>>
          ELSE /\ pc' = [pc EXCEPT ![c] = "detect"]
               /\ call' = [call EXCEPT ![c] = [user_input |-> Strip(raw), conf_thresh |-> t]]
    /\ UNCHANGED <<faqs, env, loc, result, trace, shown>>
    /\ UNCHANGED <<loadVars, trVars, mVars>>

\* line 73
Detect(c) ==
    /\ pc[c] = "detect"
    /\ \E det \in DetectOutcomes(call[c].user_input) :
          LET d == detect_language(call[c].user_input, det)
          IN  IF d.raised
              THEN pc' = [pc EXCEPT ![c] = "raised"] /\ UNCHANGED <<loc, env, trace>>
              ELSE /\ pc' = [pc EXCEPT ![c] = "translate_in"]
                   /\ loc' = [loc EXCEPT ![c].src_lang = d.ret]
                   /\ env' = [env EXCEPT ![c].det = det]
                   /\ trace' = [trace EXCEPT ![c] = Append(@, [step |-> "DETECT", calls |-> 0, warned |-> FALSE])]
    /\ UNCHANGED <<faqs, call, result, shown>>
    /\ UNCHANGED <<loadVars, trVars, mVars>>

\* line 75
TranslateIn(c) ==
    /\ pc[c] = "translate_in"
    /\ \E b \in Backends :
          LET r == translate_text(call[c].user_input, loc[c].src_lang, LANGUAGE_FOR_MATCHING, b)
          IN  IF r.raised
              THEN pc' = [pc EXCEPT ![c] = "raised"] /\ UNCHANGED <<loc, env, trace>>
              ELSE /\ pc' = [pc EXCEPT ![c] = "match"]
                   /\ loc' = [loc EXCEPT ![c].query_en = r.ret]
                   /\ env' = [env EXCEPT ![c].tin = IF r.calls > 0 THEN b ELSE NoCall]
                   /\ trace' = [trace EXCEPT ![c] = Append(@, Step("TRANSLATE_IN", r))]
    /\ UNCHANGED <<faqs, call, result, shown>>
    /\ UNCHANGED <<loadVars, trVars, mVars>>

\* a faulty variant of Match: the candidates are kept in a module-level list every caller shares
Match_shared(c) ==
    /\ pc[c] = "match"
    /\ pc' = [pc EXCEPT ![c] = "decide"]
    /\ loc' = [d \in Callers |->
                 [loc[d] EXCEPT !.matches = best_match(loc[c].query_en, faqs, TOP_K)]]
    /\ trace' = [trace EXCEPT ![c] = Append(@, [step |-> "MATCH", calls |-> 0, warned |-> FALSE])]
    /\ UNCHANGED <<faqs, call, env, result, shown>>
    /\ UNCHANGED <<loadVars, trVars, mVars>>

\* line 77
Match(c) ==
    /\ pc[c] = "match"
    /\ pc' = [pc EXCEPT ![c] = "decide"]
    /\ loc' = [loc EXCEPT ![c].matches = best_match(loc[c].query_en, faqs, TOP_K)]
    /\ trace' = [trace EXCEPT ![c] = Append(@, [step |-> "MATCH", calls |-> 0, warned |-> FALSE])]
    /\ UNCHANGED <<faqs, call, env, result, shown>>
    /\ UNCHANGED <<loadVars, trVars, mVars>>

\* a faulty variant of Decide: a best score equal to the threshold is refused too
Decide_strict(c) ==
    /\ pc[c] = "decide"
    /\ LET matches == loc[c].matches
           best == matches[1]
       IN  IF matches = <<>>
           THEN /\ result' = [result EXCEPT ![c] =
                      [answer |-> None, score |-> 0, matches |-> <<>>,
                       src_lang |-> loc[c].src_lang]]
                /\ pc' = [pc EXCEPT ![c] = "returned"]
           ELSE IF best.score <= call[c].conf_thresh * 1000
           THEN /\ result' = [result EXCEPT ![c] =
                      [answer |-> None, score |-> best.score, matches |-> matches,
                       src_lang |-> loc[c].src_lang, query_en |-> loc[c].query_en]]
                /\ pc' = [pc EXCEPT ![c] = "returned"]
           ELSE /\ pc' = [pc EXCEPT ![c] = "translate_out"]
                /\ UNCHANGED result
    /\ trace' = [trace EXCEPT ![c] = Append(@, [step |-> "DECIDE", calls |-> 0, warned |-> FALSE])]
    /\ UNCHANGED <<faqs, call, env, loc, shown>>
    /\ UNCHANGED <<loadVars, trVars, mVars>>

\* a faulty variant of Decide: the answer is translated back before the score is looked at
Decide_translateFirst(c) ==
    /\ pc[c] = "decide"
    /\ IF loc[c].matches = <<>>
       THEN /\ result' = [result EXCEPT ![c] =
                  [answer |-> None, score |-> 0, matches |-> <<>>,
                   src_lang |-> loc[c].src_lang]]
            /\ pc' = [pc EXCEPT ![c] = "returned"]
       ELSE /\ pc' = [pc EXCEPT ![c] = "translate_out"]
            /\ UNCHANGED result
    /\ trace' = [trace EXCEPT ![c] = Append(@, [step |-> "DECIDE", calls |-> 0, warned |-> FALSE])]
    /\ UNCHANGED <<faqs, call, env, loc, shown>>
    /\ UNCHANGED <<loadVars, trVars, mVars>>

\* lines 78-85
Decide(c) ==
    /\ pc[c] = "decide"
    /\ LET matches == loc[c].matches
           best == matches[1]
       IN  IF matches = <<>>
           THEN /\ result' = [result EXCEPT ![c] =
                      [answer |-> None, score |-> 0, matches |-> <<>>,
                       src_lang |-> loc[c].src_lang]]
                /\ pc' = [pc EXCEPT ![c] = "returned"]
           ELSE IF BelowThreshold(best.score, call[c].conf_thresh)
           THEN /\ result' = [result EXCEPT ![c] =
                      [answer |-> None, score |-> best.score, matches |-> matches,
                       src_lang |-> loc[c].src_lang, query_en |-> loc[c].query_en]]
                /\ pc' = [pc EXCEPT ![c] = "returned"]
           ELSE /\ pc' = [pc EXCEPT ![c] = "translate_out"]
                /\ UNCHANGED result
    /\ trace' = [trace EXCEPT ![c] = Append(@, [step |-> "DECIDE", calls |-> 0, warned |-> FALSE])]
    /\ UNCHANGED <<faqs, call, env, loc, shown>>
    /\ UNCHANGED <<loadVars, trVars, mVars>>

\* lines 87-88
TranslateOut(c) ==
    /\ pc[c] = "translate_out"
    /\ \E b \in Backends :
          LET best == loc[c].matches[1]
              r == translate_text(best.answer, LANGUAGE_FOR_MATCHING, loc[c].src_lang, b)
          IN  IF r.raised
              THEN pc' = [pc EXCEPT ![c] = "raised"] /\ UNCHANGED <<result, env, trace>>
              ELSE /\ pc' = [pc EXCEPT ![c] = "returned"]
                   /\ result' = [result EXCEPT ![c] =
                         [answer |-> r.ret, score |-> best.score, matches |-> loc[c].matches,
                          src_lang |-> loc[c].src_lang, query_en |-> loc[c].query_en]]
                   /\ env' = [env EXCEPT ![c].tout = IF r.calls > 0 THEN b ELSE NoCall]
                   /\ trace' = [trace EXCEPT ![c] = Append(@, Step("TRANSLATE_OUT", r))]
    /\ UNCHANGED <<faqs, call, loc, shown>>
    /\ UNCHANGED <<loadVars, trVars, mVars>>

\* result["matches"][:top_k]
Take(s, k) == SubSeq(s, 1, IF k < Len(s) THEN k ELSE Len(s))

\* lines 192-208: the answer and the candidates are shown; top_k and show_raw
\* are the sidebar's slider and checkbox (lines 143-144)
Show(c) ==
    /\ pc[c] = "returned"
    /\ \E top_k \in TopKs, show_raw \in BOOLEAN :
          shown' = [shown EXCEPT ![c] =
             IF Truthy(result[c].answer)
             THEN [top_k |-> top_k, branch |-> "success",
                   cands |-> IF show_raw THEN Take(result[c].matches, top_k) ELSE <<>>]
             ELSE [top_k |-> top_k, branch |-> "error",
                   cands |-> Take(result[c].matches, top_k)]]
    /\ pc' = [pc EXCEPT ![c] = "shown"]
    /\ UNCHANGED <<faqs, call, env, loc, result, trace>>
    /\ UNCHANGED <<loadVars, trVars, mVars>>

\* the script runs again for the next question: nothing of the call is kept
Rerun(c) ==
    /\ pc[c] = "shown"
    /\ pc' = [pc EXCEPT ![c] = "idle"]
    /\ call' = [call EXCEPT ![c] = NoCallArgs]
    /\ env' = [env EXCEPT ![c] = NoEnv]
    /\ loc' = [loc EXCEPT ![c] = NoLoc]
    /\ result' = [result EXCEPT ![c] = NoResult]
    /\ trace' = [trace EXCEPT ![c] = <<>>]
    /\ shown' = [shown EXCEPT ![c] = NoShown]
    /\ UNCHANGED faqs
    /\ UNCHANGED <<loadVars, trVars, mVars>>

-----------------------------------------------------------------------------
(* translate_text and best_match called on their own *)

TrTexts == {<<>>, <<1>>, <<1, 0, 2>>, <<3, 0>>, <<3, 0, 1>>}
TrLangs == {"auto", "en", "hi"}

TranslateCall ==
    /\ tpc = "call"
    /\ \E b \in Backends :
          /\ tRes' = translate_text(tArgs.text, tArgs.src, tArgs.tgt, b)
          /\ tArgs' = [tArgs EXCEPT !.backend = b]
    /\ tpc' = "done"
    /\ UNCHANGED <<loadVars, mVars, resVars>>

MQueries == {<<>>, <<1>>, <<2, 0, 1>>, <<1, 3>>, <<3, 3>>, <<2, 0, 2, 0, 3>>}

MatchCall ==
    /\ mpc = "call"
    /\ mRes' = best_match(mArgs.query, mArgs.list, mArgs.k)
    /\ mpc' = "done"
    /\ UNCHANGED mArgs
    /\ UNCHANGED <<loadVars, trVars, resVars>>

-----------------------------------------------------------------------------
(* the documents load_faqs reads *)

QuestionKeys == <<"question", "q", "title">>
AnswerKeys == <<"answer", "ans">>

\* the values a field takes when it is present
FieldValues ==
    [question |-> {<<>>, <<Space>>, <<Space, 1, Space>>},
     q        |-> {<<>>, <<2>>},
     title    |-> {<<3, Space>>},
     answer   |-> {<<>>, <<Space, 1>>},
     ans      |-> {<<2, Space>>}]

\* the records over some of the keys, each field taking one of its values
Parts(keys) ==
    UNION {{r \in [F -> UNION {FieldValues[f] : f \in F}] :
               \A f \in F : r[f] \in FieldValues[f]} : F \in SUBSET keys}

\* a record: any question fields with a plain answer, or a plain question
\* with any answer fields
Items ==
    {qp @@ [answer |-> <<Space, 1>>] : qp \in Parts({"question", "q", "title"})}
    \cup {[question |-> <<Space, 1, Space>>] @@ ap : ap \in Parts({"answer", "ans"})}

MaxDocLen == 2

Docs == UNION {[1..n -> Items] : n \in 0..MaxDocLen}

-----------------------------------------------------------------------------
(* the specifications *)

IdleLoad == /\ doc = [exists |-> FALSE, items |-> <<>>] /\ li = 0 /\ qa = <<>> /\ lpc = "-"
IdleTr == /\ tArgs = [text |-> <<>>, src |-> "-", tgt |-> "-", backend |-> NoCall]
          /\ tRes = [ret |-> None, calls |-> 0, warned |-> FALSE, raised |-> FALSE]
          /\ tpc = "-"
IdleMatch == /\ mArgs = [query |-> <<>>, list |-> <<>>, k |-> 0] /\ mRes = <<>> /\ mpc = "-"
IdleRes == /\ faqs = <<>>
           /\ pc = [c \in Callers |-> "-"]
           /\ call = [c \in Callers |-> NoCallArgs]
           /\ env = [c \in Callers |-> NoEnv]
           /\ loc = [c \in Callers |-> NoLoc]
           /\ result = [c \in Callers |-> NoResult]
           /\ trace = [c \in Callers |-> <<>>]
           /\ shown = [c \in Callers |-> NoShown]

\* the callers' questions against a loaded store
Init ==
    /\ faqs \in Stores
    /\ pc = [c \in Callers |-> "idle"]
    /\ call = [c \in Callers |-> NoCallArgs]
    /\ env = [c \in Callers |-> NoEnv]
    /\ loc = [c \in Callers |-> NoLoc]
    /\ result = [c \in Callers |-> NoResult]
    /\ trace = [c \in Callers |-> <<>>]
    /\ shown = [c \in Callers |-> NoShown]
    /\ IdleLoad /\ IdleTr /\ IdleMatch

Next ==
    \E c \in Callers :
        \/ Submit(c)
        \/ Detect(c)
        \/ TranslateIn(c)
        \/ Match(c)
        \/ Decide(c)
        \/ TranslateOut(c)
        \/ Show(c)
        \/ Rerun(c)

Spec == Init /\ [][Next]_vars

\* load_faqs on a document
InitLoad ==
    /\ doc \in {[exists |-> FALSE, items |-> <<>>]} \cup {[exists |-> TRUE, items |-> d] : d \in Docs}
    /\ li = 0
    /\ qa = <<>>
    /\ lpc = "open"
    /\ IdleTr /\ IdleMatch /\ IdleRes

NextLoad == LoadOpen \/ LoadItem \/ LoadReturn

SpecLoad == InitLoad /\ [][NextLoad]_vars

\* translate_text on a text and two languages
InitTranslate ==
    /\ tArgs \in {[text |-> t, src |-> s, tgt |-> g, backend |-> NoCall] :
                    t \in TrTexts, s \in TrLangs, g \in TrLangs}
    /\ tRes = [ret |-> None, calls |-> 0, warned |-> FALSE, raised |-> FALSE]
    /\ tpc = "call"
    /\ IdleLoad /\ IdleMatch /\ IdleRes

NextTranslate == TranslateCall

SpecTranslate == InitTranslate /\ [][NextTranslate]_vars

\* best_match on a query, a store and a limit
InitMatch ==
    /\ mArgs \in {[query |-> q, list |-> l, k |-> k] :
                    q \in MQueries, l \in Stores, k \in TopKMin..TopKMax}
    /\ mRes = <<>>
    /\ mpc = "call"
    /\ IdleLoad /\ IdleTr /\ IdleRes

NextMatch == MatchCall

SpecMatch == InitMatch /\ [][NextMatch]_vars

-----------------------------------------------------------------------------
(* load_faqs: the claims *)

\* the value of the first of the keys that Chosen accepts, "" when there is none
FirstOf(item, keys, Chosen(_, _)) ==
    LET ok == {i \in DOMAIN keys : Chosen(item, keys[i])}
    IN  IF ok = {} THEN <<>>
        ELSE item[keys[CHOOSE i \in ok : \A j \in ok : i <= j]]

Present(item, key) == key \in DOMAIN item
NonEmpty(item, key) == key \in DOMAIN item /\ item[key] # <<>>

\* the entries of the records whose chosen question is not empty, in the
\* order of the records, both values trimmed
EntriesOf(items, Chosen(_, _)) ==
    LET kept == SelectSeq(items, LAMBDA r : FirstOf(r, QuestionKeys, Chosen) # <<>>)
    IN  [i \in DOMAIN kept |->
            [question |-> Strip(FirstOf(kept[i], QuestionKeys, Chosen)),
             answer |-> Strip(FirstOf(kept[i], AnswerKeys, Chosen))]]

\* C7: after load_faqs every entry's question is non-empty after trimming
C7_QuestionNonEmptyAfterTrim ==
    lpc = "done" => \A i \in DOMAIN qa : Strip(qa[i].question) # <<>>

\* C8 as stated: the first field that is present among question, q, title
\* decides the question, and the first present among answer, ans the answer,
\* even when a later alternate field is present too
C8_FirstPresentDecides ==
    lpc = "done" => qa = EntriesOf(doc.items, Present)

\* C8 as amended: the first field among question, q, title whose value is not
\* empty decides the question, and the first non-empty among answer, ans the
\* answer ("" when there is none); a record is kept when the question so
\* chosen is not empty before trimming; both values are trimmed and the kept
\* records are in the order of the document
C8_FirstNonEmptyDecides ==
    lpc = "done" => qa = EntriesOf(doc.items, NonEmpty)

\* two records are kept, the first by its q field because its question field
\* is present and empty, the second by its question field although it has a
\* q field as well
C8_Witness ==
    /\ lpc = "done"
    /\ Len(doc.items) = 2
    /\ Len(qa) = 2
    /\ {"question", "q"} \subseteq DOMAIN doc.items[1]
    /\ doc.items[1]["question"] = <<>>
    /\ qa[1] = [question |-> <<2>>, answer |-> <<1>>]
    /\ {"question", "q"} \subseteq DOMAIN doc.items[2]
    /\ doc.items[2]["q"] = <<2>>
    /\ qa[2].question = <<1>>

-----------------------------------------------------------------------------
(* translate_text: the claims *)

\* C3: when the backend fails on a non-empty text with src # tgt, translate_text
\* returns the text unchanged, raises nothing, warns, and has called the
\* backend once
C3_BackendFailureFallsBack ==
    (tpc = "done" /\ tArgs.text # <<>> /\ tArgs.src # tArgs.tgt /\ ~tArgs.backend.ok)
        => /\ tRes.ret = tArgs.text
           /\ ~tRes.raised
           /\ tRes.warned
           /\ tRes.calls = 1

C3_Witness ==
    /\ tpc = "done"
    /\ tArgs.text = <<1, 0, 2>>
    /\ tArgs.src = "auto"
    /\ tArgs.tgt = "hi"
    /\ ~tArgs.backend.ok
    /\ tRes.warned

\* C4: the backend is called exactly when the text is non-empty and src # tgt;
\* translate_text(text, L, L) is text and translate_text("", s, t) is ""
C4_BackendOnlyWhenNeeded ==
    tpc = "done" =>
        /\ tRes.calls > 0 <=> (tArgs.text # <<>> /\ tArgs.src # tArgs.tgt)
        /\ tArgs.src = tArgs.tgt => tRes.ret = tArgs.text
        /\ tArgs.text = <<>> => tRes.ret = <<>>

\* the languages are the same and a backend that would have changed the text
\* is not called
C4_Witness ==
    /\ tpc = "done"
    /\ tArgs.src = tArgs.tgt
    /\ tArgs.text # <<>>
    /\ tArgs.backend.ok
    /\ tArgs.backend.text # tArgs.text
    /\ tRes.calls = 0
    /\ tRes.ret = tArgs.text

-----------------------------------------------------------------------------
(* best_match: the claims *)

Min2(x, y) == IF x <= y THEN x ELSE y

\* C5: best_match returns min(k, |entries|) candidates, ordered by
\* non-increasing score, each with a score from 0 to 100 percent and the
\* question and the answer of the entry at its index
C5_TopMatches ==
    mpc = "done" =>
        /\ Len(mRes) = Min2(mArgs.k, Len(mArgs.list))
        /\ \A i, j \in DOMAIN mRes : i < j => mRes[i].score >= mRes[j].score
        /\ \A i \in DOMAIN mRes :
              /\ mRes[i].score >= 0
              /\ mRes[i].score <= 100 * 1000
              /\ mRes[i].index + 1 \in DOMAIN mArgs.list
              /\ mRes[i].question = mArgs.list[mRes[i].index + 1].question
              /\ mRes[i].answer = mArgs.list[mRes[i].index + 1].answer

\* fewer candidates than entries are asked for, and the best is not the first entry
C5_Witness ==
    /\ mpc = "done"
    /\ mArgs.k >= 2
    /\ mArgs.k < Len(mArgs.list)
    /\ Len(mRes) = mArgs.k
    /\ mRes[1].index > 0
    /\ mRes[1].score > mRes[2].score
    /\ mRes[2].score > 0

-----------------------------------------------------------------------------
(* get_answer: the claims *)

\* get_answer has returned to caller c
Returned(c) == pc[c] \in {"returned", "shown"}

\* the candidates best_match gave get_answer, and whether the best is too weak
Cands(c) == loc[c].matches
Weak(c) == Cands(c) # <<>> /\ Cands(c)[1].score < call[c].conf_thresh * 1000

\* C1: the answer is None exactly when there is no candidate or the best
\* candidate's score is strictly below the threshold; with a weak best
\* candidate the result carries its score and the whole candidate list; a
\* best score equal to the threshold is a match
C1_NoneIffNoConfidentMatch ==
    \A c \in Callers : Returned(c) =>
        /\ result[c].answer = None <=> (Cands(c) = <<>> \/ Weak(c))
        /\ Cands(c) = <<>> => (result[c].score = 0 /\ result[c].matches = <<>>)
        /\ Weak(c) => /\ result[c].score = Cands(c)[1].score
                      /\ result[c].matches = Cands(c)
        /\ (Cands(c) # <<>> /\ Cands(c)[1].score = call[c].conf_thresh * 1000)
              => result[c].answer # None

\* one caller's best candidate is below the threshold, the other's scores
\* exactly the threshold and is answered
C1_Witness ==
    /\ Returned("s1") /\ Weak("s1")
    /\ result["s1"].answer = None
    /\ Len(result["s1"].matches) > 1
    /\ Returned("s2")
    /\ Cands("s2") # <<>>
    /\ Cands("s2")[1].score = call["s2"].conf_thresh * 1000
    /\ result["s2"].answer # None

Chars == 0..3
IsText(s) == s # None /\ \A i \in DOMAIN s : s[i] \in Chars

NoCandidates(r) == r.matches = <<>> /\ r.answer = None /\ r.score = 0
LowConfidence(r, t) == r.matches # <<>> /\ r.answer = None /\ r.score < t * 1000
Matched(r, t) == r.matches # <<>> /\ IsText(r.answer) /\ r.score >= t * 1000

\* C2: get_answer never raises, whatever the detector and the translator do,
\* and it returns in exactly one of NO_CANDIDATES, LOW_CONFIDENCE and MATCHED,
\* the answer being None or a text
C2_NeverRaises ==
    \A c \in Callers :
        /\ pc[c] # "raised"
        /\ Returned(c) =>
              /\ result[c].answer = None \/ IsText(result[c].answer)
              /\ Cardinality({x \in {"NO_CANDIDATES", "LOW_CONFIDENCE", "MATCHED"} :
                    \/ x = "NO_CANDIDATES" /\ NoCandidates(result[c])
                    \/ x = "LOW_CONFIDENCE" /\ LowConfidence(result[c], call[c].conf_thresh)
                    \/ x = "MATCHED" /\ Matched(result[c], call[c].conf_thresh)}) = 1

Warned(c, name) == \E i \in DOMAIN trace[c] : trace[c][i].step = name /\ trace[c][i].warned

\* one call returns an answer although both of its translations failed, the
\* other returns although the detector failed
C2_Witness ==
    /\ Returned("s1")
    /\ Warned("s1", "TRANSLATE_IN") /\ Warned("s1", "TRANSLATE_OUT")
    /\ result["s1"].answer # None
    /\ Returned("s2")
    /\ env["s2"].det = "LangDetectException"

\* C6 as stated: get_answer computes as many candidates as the caller's top-k
\* asks for, so the result holds, and the UI lists, min(k, |entries|) of them
C6_CandidatesFollowTopK ==
    \A c \in Callers : pc[c] = "shown" =>
        /\ Len(result[c].matches) = Min2(shown[c].top_k, Len(faqs))
        /\ shown[c].branch = "error" =>
              Len(shown[c].cands) = Min2(shown[c].top_k, Len(faqs))

\* C9: the store never changes, and whatever the other callers do meanwhile,
\* a call returns what get_answer gives for its arguments, the store and the
\* answers the detector and the translator gave to this call
C9_Stateless ==
    /\ [](\A c \in Callers : Returned(c) =>
             result[c] = get_answer(call[c].user_input, faqs, call[c].conf_thresh, env[c]))
    /\ [][faqs' = faqs]_vars

\* both callers are in the middle of a call, with different candidates
C9_Witness ==
    /\ pc["s1"] = "translate_out"
    /\ pc["s2"] = "decide"
    /\ loc["s1"].matches # <<>>
    /\ loc["s2"].matches # <<>>
    /\ loc["s1"].matches[1].index # loc["s2"].matches[1].index
    /\ call["s1"].user_input # call["s2"].user_input

Pipeline == <<"DETECT", "TRANSLATE_IN", "MATCH", "DECIDE", "TRANSLATE_OUT">>
Steps(c) == [i \in DOMAIN trace[c] |-> trace[c][i].step]

\* C10: the steps of a call are DETECT, TRANSLATE_IN, MATCH, DECIDE in that
\* order; the answer is translated back only when the call is MATCHED, the
\* answer then being translate_text(best answer, matching language, source
\* language), which is the stored answer when the source language is the
\* matching language; otherwise no translation of an answer is made
C10_PipelineOrder ==
    \A c \in Callers :
        /\ Len(trace[c]) <= Len(Pipeline)
        /\ Steps(c) = SubSeq(Pipeline, 1, Len(trace[c]))
        /\ Returned(c) =>
              IF Cands(c) # <<>> /\ ~Weak(c)
              THEN /\ Len(trace[c]) = 5
                   /\ result[c].answer =
                         translate_text(Cands(c)[1].answer, LANGUAGE_FOR_MATCHING,
                                        loc[c].src_lang, env[c].tout).ret
                   /\ loc[c].src_lang = LANGUAGE_FOR_MATCHING =>
                         /\ result[c].answer = faqs[Cands(c)[1].index + 1].answer
                         /\ trace[c][5].calls = 0
              ELSE /\ Len(trace[c]) = 4
                   /\ result[c].answer = None

\* one call is answered with the translation of the stored answer, the other,
\* asked in the matching language, with the stored answer itself
C10_Witness ==
    /\ Returned("s1")
    /\ loc["s1"].src_lang = "hi"
    /\ Len(trace["s1"]) = 5
    /\ trace["s1"][5].calls = 1
    /\ env["s1"].tout.ok
    /\ result["s1"].answer = env["s1"].tout.text
    /\ result["s1"].answer # Cands("s1")[1].answer
    /\ Returned("s2")
    /\ loc["s2"].src_lang = "en"
    /\ Len(trace["s2"]) = 5
    /\ result["s2"].answer = Cands("s2")[1].answer
    /\ result["s2"].answer # <<>>

====
